---- MODULE Spec2Model ----
(***************************************************************************)
(* Order lifecycle, totals, stock ledger and payment state machine of the  *)
(* e-commerce backend (apps/orders, apps/products, apps/payments).         *)
(*                                                                         *)
(* Money is a Decimal.  One model unit is 0.0001 (the scale of a 2-place   *)
(* amount multiplied by Decimal('0.05')), so one cent is Cent units and    *)
(* a value stored in a DecimalField(decimal_places=2) column is a multiple *)
(* of Cent.                                                                *)
(***************************************************************************)
EXTENDS Integers, Sequences, FiniteSets, TLC

\* ---------------------------------------------------------------- bounds
MaxStock == 2
MaxQty == 2
MaxItemQty == 2
MaxOrders == 1
MaxTime == 2
MaxCreated == 2
MaxCats == 3
MaxApplied == 2
MaxHistory == 3
MaxLogs == 3

\* ------------------------------------------------------ program constants
Cent == 100
TaxRatePct == 5

Products == {"p1", "p2"}
Prices == {10 * Cent, 20 * Cent}
ShippingCosts == {0, 5 * Cent}
Discounts == {0, 100 * Cent}
Creators == {"r1", "r2"}
\* the product whose price an admin edits
Repriced == {"p1"}
\* the products whose stock is updated while orders on them are paid and canceled
Restocked == {"p1"}

OrderStatuses == {"pending", "paid", "processing", "shipped", "delivered", "canceled"}
PaymentStatuses == {"pending", "processing", "success", "failed", "refunded"}
ProductStatuses == {"active", "inactive", "out_of_stock"}

\* an unset (NULL) timestamp
Unset == 0

VARIABLES
    stock,      \* Product.stock, per product
    pstatus,    \* Product.status, per product
    price,      \* Product.price, per product
    orders,     \* table orders: pk -> row
    items,      \* table order_items, in id order
    history,    \* table order_status_history, in insertion order
    payments,   \* table payments: order pk -> row (one-to-one)
    now,        \* the clock: timezone.now() and the date of datetime.now()
    pending,    \* order creations in flight: request -> none or the unsaved order
    prepaid,    \* per order: stock of every product just before the order became paid
    categories, \* table categories: id -> row
    applied,    \* per product: increases minus successful reductions of the finished update_stock requests
    logs,       \* table payment_logs written by create_payment_intent, in insertion order
    lastOp      \* the operation that ran last and how it ended

vars == <<stock, pstatus, price, orders, items, history, payments, now, pending, prepaid,
          categories, applied, logs, lastOp>>

\* calls: the Payment method the operation invoked, if any
\* by: who sent the request, where the operation depends on it
Op(name, ok, o, p, q) ==
    [op |-> name, ok |-> ok, o |-> o, p |-> p, q |-> q, calls |-> "none", by |-> "none"]
OpCall(name, o, m) ==
    [op |-> name, ok |-> TRUE, o |-> o, p |-> "none", q |-> 0, calls |-> m, by |-> "none"]
OpBy(name, ok, o, a) ==
    [op |-> name, ok |-> ok, o |-> o, p |-> "none", q |-> 0, calls |-> "none", by |-> a]

\* ------------------------------------------------------------- products

is_in_stock(p) == stock[p] > 0 /\ pstatus[p] = "active"

\* a variant of Product.save that stores the status it was given
ProductSaveStatusKept(s, st) == st

\* Product.save: status follows stock
ProductSaveStatus(s, st) ==
    IF s = 0 /\ st = "active" THEN "out_of_stock"
    ELSE IF s > 0 /\ st = "out_of_stock" THEN "active"
    ELSE st

\* a variant of the stock check that lets a request one above the stock through
reduce_stock_fails_above(s, q) == q > s + 1

reduce_stock_fails(s, q) == q > s

\* Product.reduce_stock on (stock, status); [ok, stock, status]
reduce_stock(s, st, q) ==
    IF reduce_stock_fails(s, q)
    THEN [ok |-> FALSE, stock |-> s, status |-> st]
    ELSE LET s2 == s - q
             st2 == IF s2 = 0 THEN "out_of_stock" ELSE st
         IN [ok |-> TRUE, stock |-> s2, status |-> ProductSaveStatus(s2, st2)]

\* Product.increase_stock on (stock, status)
increase_stock(s, st, q) ==
    LET s2 == s + q
        st2 == IF s2 > 0 /\ st = "out_of_stock" THEN "active" ELSE st
    IN [ok |-> TRUE, stock |-> s2, status |-> ProductSaveStatus(s2, st2)]

\* a direct call of Product.reduce_stock
ReduceStock(p, q) ==
    LET r == reduce_stock(stock[p], pstatus[p], q) IN
    /\ stock' = [stock EXCEPT ![p] = r.stock]
    /\ pstatus' = [pstatus EXCEPT ![p] = r.status]
    /\ lastOp' = Op("reduce_stock", r.ok, 0, p, q)
    /\ UNCHANGED <<price, orders, items, history, payments, now, pending, prepaid, categories,
                 applied, logs>>

\* a direct call of Product.increase_stock
IncreaseStock(p, q) ==
    LET r == increase_stock(stock[p], pstatus[p], q) IN
    /\ stock[p] + q <= MaxStock
    /\ stock' = [stock EXCEPT ![p] = r.stock]
    /\ pstatus' = [pstatus EXCEPT ![p] = r.status]
    /\ lastOp' = Op("increase_stock", TRUE, 0, p, q)
    /\ UNCHANGED <<price, orders, items, history, payments, now, pending, prepaid, categories,
                 applied, logs>>

\* product update through ProductCreateUpdateSerializer: a new price (> 0)
SetPrice(p, v) ==
    /\ v > 0
    /\ v # price[p]
    /\ price' = [price EXCEPT ![p] = v]
    /\ lastOp' = Op("set_price", TRUE, 0, "none", 0)
    /\ UNCHANGED <<stock, pstatus, orders, items, history, payments, now, pending, prepaid,
                 categories, applied, logs>>

\* product update through ProductCreateUpdateSerializer: a new status; Product.save
\* then derives the status from the stock
SetProductStatus(p, st) ==
    /\ st # pstatus[p]
    /\ pstatus' = [pstatus EXCEPT ![p] = ProductSaveStatus(stock[p], st)]
    /\ lastOp' = Op("set_status", TRUE, 0, p, 0)
    /\ UNCHANGED <<stock, price, orders, items, history, payments, now, pending, prepaid,
                 categories, applied, logs>>

\* product update through ProductCreateUpdateSerializer: a new stock (>= 0);
\* Product.save then derives the status from the stock
SetStock(p, s) ==
    /\ s >= 0
    /\ s # stock[p]
    /\ stock' = [stock EXCEPT ![p] = s]
    /\ pstatus' = [pstatus EXCEPT ![p] = ProductSaveStatus(s, pstatus[p])]
    /\ lastOp' = Op("set_stock", TRUE, 0, p, 0)
    /\ UNCHANGED <<price, orders, items, history, payments, now, pending, prepaid, categories,
                 applied, logs>>

\* the clock advances
Tick ==
    /\ now < MaxTime
    /\ now' = now + 1
    /\ lastOp' = Op("tick", TRUE, 0, "none", 0)
    /\ UNCHANGED <<stock, pstatus, price, orders, items, history, payments, pending, prepaid,
                 categories, applied, logs>>

\* --------------------------------------------------------------- totals

\* a value written to a DecimalField(max_digits=10, decimal_places=2) column
\* of the PostgreSQL store: rounded to 2 places, ties away from zero
Quantize2(x) ==
    IF x >= 0 THEN ((x + Cent \div 2) \div Cent) * Cent
    ELSE -(((-x) + Cent \div 2) \div Cent) * Cent

RECURSIVE SumRows(_)
SumRows(rows) ==
    IF rows = <<>> THEN 0
    ELSE Head(rows).quantity * Head(rows).price + SumRows(Tail(rows))

ItemsOf(tbl, o) == SelectSeq(tbl, LAMBDA r : r.order = o)

\* Order.calculate_totals on the in-memory order, reading the items table
calculate_totals(ord, o, tbl) ==
    LET sub == SumRows(ItemsOf(tbl, o))
        tax == (sub * TaxRatePct) \div 100
    IN [ord EXCEPT !.subtotal = sub,
                   !.tax = tax,
                   !.total_amount = sub + tax + ord.shipping_cost - ord.discount]

\* the row written by Model.save: every money column is quantized by the store
StoreRow(ord) ==
    [ord EXCEPT !.subtotal = Quantize2(@),
                !.tax = Quantize2(@),
                !.shipping_cost = Quantize2(@),
                !.discount = Quantize2(@),
                !.total_amount = Quantize2(@)]

\* a variant of Order.save that stores the row without recomputing the totals
OrderSaveAsIs(ord, o, tbl) == StoreRow(ord)

\* Order.save of an order that has a pk: totals are recomputed, then stored
OrderSave(ord, o, tbl) == StoreRow(calculate_totals(ord, o, tbl))


\* --------------------------------------------------------------- orders

Max(S) == CHOOSE x \in S : \A y \in S : y <= x

\* the date of datetime.now(): every value of the clock is its own day
DateOf(t) == t

\* sequence numbers of the stored orders whose number has the date's prefix
SeqsOn(tbl, d) == {tbl[i].order_number[2] : i \in {j \in DOMAIN tbl : tbl[j].order_number[1] = d}}

\* Order._generate_order_number: last stored sequence of the date plus one
generate_order_number(tbl, d) ==
    IF SeqsOn(tbl, d) # {} THEN <<d, Max(SeqsOn(tbl, d)) + 1>> ELSE <<d, 1>>

\* the unsaved Order built by Order.objects.create(user=..., **validated_data)
NewOrderRow(num, ship, disc) ==
    [order_number |-> num, status |-> "pending",
     subtotal |-> 0, tax |-> 0, shipping_cost |-> ship, discount |-> disc,
     total_amount |-> 0,
     paid_at |-> Unset, shipped_at |-> Unset, delivered_at |-> Unset]

\* OrderItem.save: subtotal = quantity x price
ItemRow(o, p, q, pr) ==
    [order |-> o, product |-> p, quantity |-> q, price |-> pr,
     subtotal |-> Quantize2(q * pr)]

HasItem(tbl, o, p) == \E i \in DOMAIN tbl : tbl[i].order = o /\ tbl[i].product = p

ItemIndex(tbl, o, p) == CHOOSE i \in DOMAIN tbl : tbl[i].order = o /\ tbl[i].product = p

\* INSERT into order_items under unique_together (order, product)
InsertItem(tbl, row) ==
    IF HasItem(tbl, row.order, row.product)
    THEN [ok |-> FALSE, tbl |-> tbl]
    ELSE [ok |-> TRUE, tbl |-> Append(tbl, row)]

\* the loop of OrderCreateSerializer.create over items_data
RECURSIVE CreateItems(_, _, _)
CreateItems(tbl, o, data) ==
    IF data = <<>> THEN [ok |-> TRUE, tbl |-> tbl]
    ELSE LET r == InsertItem(tbl, ItemRow(o, Head(data).product, Head(data).quantity,
                                          price[Head(data).product]))
         IN IF r.ok THEN CreateItems(r.tbl, o, Tail(data)) ELSE r

\* OrderItemCreateSerializer: the product is in stock and the quantity is available
LinesValid(data) ==
    /\ data # <<>>
    /\ \A i \in DOMAIN data :
          /\ is_in_stock(data[i].product)
          /\ data[i].quantity >= 1
          /\ data[i].quantity <= stock[data[i].product]

Lines == [product : Products, quantity : 1..MaxQty]
LineSeqs == {<<l>> : l \in Lines} \cup {<<l1, l2>> : l1 \in Lines, l2 \in Lines}

\* the rows left by OrderCreateSerializer.create for the unsaved order u;
\* ok is FALSE when an INSERT violated a unique constraint (all is rolled back)
InsertOrder(u) ==
    LET o == Len(orders) + 1
        dup == \E i \in DOMAIN orders : orders[i].order_number = u.order_number
        r == CreateItems(items, o, u.data)
    IN IF dup \/ ~r.ok
       THEN [ok |-> FALSE, orders |-> orders, items |-> items]
       ELSE [ok |-> TRUE,
             orders |-> Append(orders,
                          OrderSave(NewOrderRow(u.order_number, u.shipping_cost, u.discount),
                                    o, r.tbl)),
             items |-> r.tbl]

\* POST /orders/ handled without another creation in between
CreateOrder(data, ship, disc) ==
    /\ Len(orders) < MaxOrders
    /\ LET u == [order_number |-> generate_order_number(orders, DateOf(now)),
                 data |-> data, shipping_cost |-> ship, discount |-> disc]
           r == InsertOrder(u)
       IN IF LinesValid(data) /\ r.ok
          THEN /\ orders' = r.orders
               /\ items' = r.items
               /\ prepaid' = Append(prepaid, stock)
               /\ lastOp' = Op("create_order", TRUE, Len(orders) + 1, "none", 0)
          ELSE /\ UNCHANGED <<orders, items, prepaid>>
               /\ lastOp' = Op("create_order", FALSE, 0, "none", 0)
    /\ UNCHANGED <<stock, pstatus, price, history, payments, now, pending, categories, applied, logs>>

\* a variant of Order.add_item that captures the product's current price again
\* when it merges
add_item_recapture(o, p, q) ==
    IF ~is_in_stock(p) \/ q > stock[p]
    THEN [ok |-> FALSE, tbl |-> items]
    ELSE IF HasItem(items, o, p)
         THEN LET i == ItemIndex(items, o, p)
              IN [ok |-> TRUE,
                  tbl |-> [items EXCEPT ![i] =
                             ItemRow(o, p, items[i].quantity + q, price[p])]]
         ELSE [ok |-> TRUE, tbl |-> Append(items, ItemRow(o, p, q, price[p]))]

\* Order.add_item
add_item(o, p, q) ==
    IF ~is_in_stock(p) \/ q > stock[p]
    THEN [ok |-> FALSE, tbl |-> items]
    ELSE IF HasItem(items, o, p)
         THEN LET i == ItemIndex(items, o, p)
              IN [ok |-> TRUE,
                  tbl |-> [items EXCEPT ![i] =
                             ItemRow(o, p, items[i].quantity + q, items[i].price)]]
         ELSE [ok |-> TRUE, tbl |-> Append(items, ItemRow(o, p, q, price[p]))]

AddItem(o, p, q) ==
    /\ o \in DOMAIN orders
    /\ LET r == add_item(o, p, q) IN
       /\ \A i \in DOMAIN r.tbl : r.tbl[i].quantity <= MaxItemQty
       /\ items' = r.tbl
       /\ orders' = IF r.ok THEN [orders EXCEPT ![o] = OrderSave(@, o, r.tbl)] ELSE orders
       /\ lastOp' = Op("add_item", r.ok, o, p, q)
    /\ UNCHANGED <<stock, pstatus, price, history, payments, now, pending, prepaid,
                 categories, applied, logs>>

\* Order.remove_item
remove_item(o, p) == SelectSeq(items, LAMBDA r : ~(r.order = o /\ r.product = p))

RemoveItem(o, p) ==
    /\ o \in DOMAIN orders
    /\ items' = remove_item(o, p)
    /\ orders' = [orders EXCEPT ![o] = OrderSave(@, o, remove_item(o, p))]
    /\ lastOp' = Op("remove_item", TRUE, o, "none", 0)
    /\ UNCHANGED <<stock, pstatus, price, history, payments, now, pending, prepaid,
                 categories, applied, logs>>

\* Order.update_item_quantity; OrderItem.DoesNotExist when there is no such item
update_item_quantity(o, p, q) ==
    IF q <= 0 THEN [ok |-> TRUE, tbl |-> remove_item(o, p)]
    ELSE IF ~HasItem(items, o, p) THEN [ok |-> FALSE, tbl |-> items]
    ELSE LET i == ItemIndex(items, o, p)
         IN [ok |-> TRUE, tbl |-> [items EXCEPT ![i] = ItemRow(o, p, q, items[i].price)]]

UpdateItemQuantity(o, p, q) ==
    /\ o \in DOMAIN orders
    /\ LET r == update_item_quantity(o, p, q) IN
       /\ items' = r.tbl
       /\ orders' = IF r.ok THEN [orders EXCEPT ![o] = OrderSave(@, o, r.tbl)] ELSE orders
       /\ lastOp' = Op("update_item_quantity", r.ok, o, "none", 0)
    /\ UNCHANGED <<stock, pstatus, price, history, payments, now, pending, prepaid,
                 categories, applied, logs>>

\* PATCH /orders/{id}/items/{item_id}/ : OrderViewSet.update_item with
\* OrderItemUpdateSerializer; the item is named by its product
update_item(o, p, q) ==
    IF orders[o].status # "pending" \/ ~HasItem(items, o, p) THEN [ok |-> FALSE, tbl |-> items]
    ELSE IF q > 0 /\ q > stock[p] THEN [ok |-> FALSE, tbl |-> items]
    ELSE IF q = 0 THEN [ok |-> TRUE, tbl |-> remove_item(o, p)]
    ELSE LET i == ItemIndex(items, o, p)
         IN [ok |-> TRUE, tbl |-> [items EXCEPT ![i] = ItemRow(o, p, q, items[i].price)]]

UpdateItem(o, p, q) ==
    /\ o \in DOMAIN orders
    /\ LET r == update_item(o, p, q) IN
       /\ items' = r.tbl
       /\ orders' = IF r.ok THEN [orders EXCEPT ![o] = OrderSave(@, o, r.tbl)] ELSE orders
       /\ lastOp' = Op("update_item", r.ok, o, "none", 0)
    /\ UNCHANGED <<stock, pstatus, price, history, payments, now, pending, prepaid,
                 categories, applied, logs>>

\* PUT/PATCH /orders/{id}/ : OrderUpdateSerializer.update
UpdateOrder(o, ship, disc) ==
    /\ o \in DOMAIN orders
    /\ orders' = [orders EXCEPT ![o] =
                    OrderSave([@ EXCEPT !.shipping_cost = ship, !.discount = disc], o, items)]
    /\ lastOp' = Op("update_order", TRUE, o, "none", 0)
    /\ UNCHANGED <<stock, pstatus, price, items, history, payments, now, pending, prepaid,
                 categories, applied, logs>>


\* ------------------------------------------- concurrent order creation

\* no creation in flight for a request
NoRequest == [order_number |-> <<0, 0>>, data |-> <<>>, shipping_cost |-> 0, discount |-> 0]

InFlight(r) == pending[r] # NoRequest

\* a POST /orders/ request validates its items and Order.save generates the
\* order number from the rows committed so far
BeginCreate(r, data, ship, disc) ==
    /\ ~InFlight(r)
    /\ Len(orders) + Cardinality({x \in Creators : InFlight(x)}) < MaxCreated
    /\ LinesValid(data)
    /\ pending' = [pending EXCEPT ![r] =
                     [order_number |-> generate_order_number(orders, DateOf(now)),
                      data |-> data, shipping_cost |-> ship, discount |-> disc]]
    /\ lastOp' = Op("begin_create", TRUE, 0, "none", 0)
    /\ UNCHANGED <<stock, pstatus, price, orders, items, history, payments, now, prepaid,
                 categories, applied, logs>>

\* the request's transaction commits its INSERTs, or fails on the unique
\* order_number and is rolled back
CommitCreate(r) ==
    /\ InFlight(r)
    /\ LET res == InsertOrder(pending[r])
       IN /\ orders' = res.orders
          /\ items' = res.items
          /\ prepaid' = IF res.ok THEN Append(prepaid, stock) ELSE prepaid
          /\ lastOp' = Op("commit_create", res.ok, 0, "none", 0)
    /\ pending' = [pending EXCEPT ![r] = NoRequest]
    /\ UNCHANGED <<stock, pstatus, price, history, payments, now, categories, applied, logs>>

\* ------------------------------------------------------ order lifecycle

\* allowed_transitions of OrderStatusUpdateSerializer.validate_status
allowed_transitions(cur) ==
    CASE cur = "pending" -> {"paid", "canceled"}
      [] cur = "paid" -> {"processing", "canceled"}
      [] cur = "processing" -> {"shipped", "canceled"}
      [] cur = "shipped" -> {"delivered"}
      [] cur = "delivered" -> {}
      [] cur = "canceled" -> {}

\* a variant of can_be_canceled that also lets a delivered order be canceled
can_be_canceled_delivered(ord) == ord.status # "canceled"

can_be_canceled(ord) == ord.status \notin {"delivered", "canceled"}

\* a variant of Order._reduce_stock that gives up at the first reduce_stock that fails
RECURSIVE reduce_stock_all_stops(_, _)
reduce_stock_all_stops(rows, led) ==
    IF rows = <<>> THEN led
    ELSE LET it == Head(rows)
             r == reduce_stock(led.stock[it.product], led.status[it.product], it.quantity)
         IN IF ~r.ok THEN led
            ELSE reduce_stock_all_stops(Tail(rows),
                    [stock |-> [led.stock EXCEPT ![it.product] = r.stock],
                     status |-> [led.status EXCEPT ![it.product] = r.status]])

\* Order._reduce_stock over the given item rows: a failed reduce_stock is skipped
RECURSIVE reduce_stock_all(_, _)
reduce_stock_all(rows, led) ==
    IF rows = <<>> THEN led
    ELSE LET it == Head(rows)
             r == reduce_stock(led.stock[it.product], led.status[it.product], it.quantity)
         IN reduce_stock_all(Tail(rows),
                [stock |-> [led.stock EXCEPT ![it.product] = r.stock],
                 status |-> [led.status EXCEPT ![it.product] = r.status]])

\* Order._restore_stock over the given item rows
RECURSIVE restore_stock_all(_, _)
restore_stock_all(rows, led) ==
    IF rows = <<>> THEN led
    ELSE LET it == Head(rows)
             r == increase_stock(led.stock[it.product], led.status[it.product], it.quantity)
         IN restore_stock_all(Tail(rows),
                [stock |-> [led.stock EXCEPT ![it.product] = r.stock],
                 status |-> [led.status EXCEPT ![it.product] = r.status]])

Ledger == [stock |-> stock, status |-> pstatus]

\* a variant of Order.mark_as_paid that acts whatever the order's status is
mark_as_paid_any_status(o) ==
    [order |-> OrderSave([orders[o] EXCEPT !.status = "paid", !.paid_at = now], o, items),
     ledger |-> reduce_stock_all(ItemsOf(items, o), Ledger),
     paid |-> TRUE]

\* Order.mark_as_paid: the new order row and ledger; no-op unless pending
mark_as_paid(o) ==
    IF orders[o].status = "pending"
    THEN [order |-> OrderSave([orders[o] EXCEPT !.status = "paid", !.paid_at = now], o, items),
          ledger |-> reduce_stock_all(ItemsOf(items, o), Ledger),
          paid |-> TRUE]
    ELSE [order |-> orders[o], ledger |-> Ledger, paid |-> FALSE]

\* does cancel_order restore the stock of an order that was in status old
cancel_restores(old) == old = "paid"

\* Order.cancel_order: the new order row and ledger; no-op when delivered or canceled
cancel_order(o) ==
    IF can_be_canceled(orders[o])
    THEN [order |-> OrderSave([orders[o] EXCEPT !.status = "canceled"], o, items),
          ledger |-> IF cancel_restores(orders[o].status)
                     THEN restore_stock_all(ItemsOf(items, o), Ledger)
                     ELSE Ledger]
    ELSE [order |-> orders[o], ledger |-> Ledger]

HistoryRow(o, from, to) == [order |-> o, from_status |-> from, to_status |-> to]

\* POST /orders/{id}/update_status/ : validate_status, then
\* OrderStatusUpdateSerializer.save
UpdateStatus(o, new) ==
    /\ o \in DOMAIN orders
    /\ IF new \in allowed_transitions(orders[o].status)
       THEN LET led == IF new = "paid" THEN reduce_stock_all(ItemsOf(items, o), Ledger)
                       ELSE Ledger
                o1 == [orders[o] EXCEPT !.status = new]
                o2 == CASE new = "paid" -> [o1 EXCEPT !.paid_at = now]
                        [] new = "shipped" -> [o1 EXCEPT !.shipped_at = now]
                        [] new = "delivered" -> [o1 EXCEPT !.delivered_at = now]
                        [] OTHER -> o1
            IN /\ history' = Append(history, HistoryRow(o, orders[o].status, new))
               /\ orders' = [orders EXCEPT ![o] = OrderSave(o2, o, items)]
               /\ stock' = led.stock
               /\ pstatus' = led.status
               /\ prepaid' = IF new = "paid" THEN [prepaid EXCEPT ![o] = stock] ELSE prepaid
               /\ lastOp' = Op("update_status", TRUE, o, "none", 0)
       ELSE /\ UNCHANGED <<history, orders, stock, pstatus, prepaid>>
            /\ lastOp' = Op("update_status", FALSE, o, "none", 0)
    /\ UNCHANGED <<price, items, payments, now, pending, categories, applied, logs>>

\* where a database write of OrderStatusUpdateSerializer.save raises
FailurePoints == {"history", "order"}

\* POST /orders/{id}/update_status/ in which a write raises: at "history" the
\* INSERT of the OrderStatusHistory row fails and nothing has been written; at
\* "order" the history row is in, _reduce_stock has run for a transition to
\* paid, and order.save() fails. No transaction surrounds the writes.
UpdateStatusFails(o, new, at) ==
    /\ o \in DOMAIN orders
    /\ new \in allowed_transitions(orders[o].status)
    /\ Len(history) < MaxHistory
    /\ IF at = "history"
       THEN /\ UNCHANGED <<history, stock, pstatus>>
            /\ lastOp' = Op("update_status_history_fails", FALSE, o, "none", 0)
       ELSE LET led == IF new = "paid" THEN reduce_stock_all(ItemsOf(items, o), Ledger)
                       ELSE Ledger
            IN /\ history' = Append(history, HistoryRow(o, orders[o].status, new))
               /\ stock' = led.stock
               /\ pstatus' = led.status
               /\ lastOp' = Op("update_status_save_fails", FALSE, o, "none", 0)
    /\ UNCHANGED <<price, orders, items, payments, now, pending, prepaid, categories, applied, logs>>

\* the admin action 'Mark selected as PAID' on one selected order:
\* Order.mark_as_paid for an order that is pending
AdminMarkAsPaid(o) ==
    /\ o \in DOMAIN orders
    /\ IF orders[o].status = "pending"
       THEN LET r == mark_as_paid(o)
            IN /\ orders' = [orders EXCEPT ![o] = r.order]
               /\ stock' = r.ledger.stock
               /\ pstatus' = r.ledger.status
               /\ prepaid' = IF r.paid THEN [prepaid EXCEPT ![o] = stock] ELSE prepaid
               /\ lastOp' = Op("admin_mark_as_paid", TRUE, o, "none", 0)
       ELSE /\ UNCHANGED <<orders, stock, pstatus, prepaid>>
            /\ lastOp' = Op("admin_mark_as_paid", FALSE, o, "none", 0)
    /\ UNCHANGED <<price, items, history, payments, now, pending, categories, applied, logs>>

\* the admin action 'Mark selected as PROCESSING' on one selected order:
\* queryset.filter(status=PAID).update(status=PROCESSING), without Order.save
AdminMarkAsProcessing(o) ==
    /\ o \in DOMAIN orders
    /\ IF orders[o].status = "paid"
       THEN /\ orders' = [orders EXCEPT ![o].status = "processing"]
            /\ lastOp' = Op("admin_mark_as_processing", TRUE, o, "none", 0)
       ELSE /\ UNCHANGED orders
            /\ lastOp' = Op("admin_mark_as_processing", FALSE, o, "none", 0)
    /\ UNCHANGED <<stock, pstatus, price, items, history, payments, now, pending, prepaid,
                   categories, applied, logs>>

\* a variant of 'Mark selected as SHIPPED' that updates the status alone
AdminMarkAsShippedStatusOnly(o) ==
    /\ o \in DOMAIN orders
    /\ IF orders[o].status = "processing"
       THEN /\ orders' = [orders EXCEPT ![o].status = "shipped"]
            /\ lastOp' = Op("admin_mark_as_shipped", TRUE, o, "none", 0)
       ELSE /\ UNCHANGED orders
            /\ lastOp' = Op("admin_mark_as_shipped", FALSE, o, "none", 0)
    /\ UNCHANGED <<stock, pstatus, price, items, history, payments, now, pending, prepaid,
                   categories, applied, logs>>

\* the admin action 'Mark selected as SHIPPED' on one selected order:
\* queryset.filter(status=PROCESSING).update(status=SHIPPED, shipped_at=now)
AdminMarkAsShipped(o) ==
    /\ o \in DOMAIN orders
    /\ IF orders[o].status = "processing"
       THEN /\ orders' = [orders EXCEPT ![o].status = "shipped", ![o].shipped_at = now]
            /\ lastOp' = Op("admin_mark_as_shipped", TRUE, o, "none", 0)
       ELSE /\ UNCHANGED orders
            /\ lastOp' = Op("admin_mark_as_shipped", FALSE, o, "none", 0)
    /\ UNCHANGED <<stock, pstatus, price, items, history, payments, now, pending, prepaid,
                   categories, applied, logs>>

\* the admin action 'Cancel selected orders' on one selected order
AdminCancelOrders(o) ==
    /\ o \in DOMAIN orders
    /\ IF can_be_canceled(orders[o])
       THEN LET r == cancel_order(o)
            IN /\ orders' = [orders EXCEPT ![o] = r.order]
               /\ stock' = r.ledger.stock
               /\ pstatus' = r.ledger.status
               /\ lastOp' = Op("admin_cancel_orders", TRUE, o, "none", 0)
       ELSE /\ UNCHANGED <<orders, stock, pstatus>>
            /\ lastOp' = Op("admin_cancel_orders", FALSE, o, "none", 0)
    /\ UNCHANGED <<price, items, history, payments, now, pending, prepaid, categories,
                   applied, logs>>

\* who sends a request about an order: the customer who owns it, another
\* customer, or an admin
Actors == {"owner", "other", "admin"}

\* OrderViewSet.get_queryset: customers see their own orders, admins all
in_queryset(a) == a \in {"owner", "admin"}

\* the permission check of OrderViewSet.cancel
may_cancel(a) == a = "owner" \/ a = "admin"

\* POST /orders/{id}/cancel/ : OrderViewSet.cancel, sent by a
CancelAs(a, o) ==
    /\ o \in DOMAIN orders
    /\ IF in_queryset(a) /\ may_cancel(a) /\ can_be_canceled(orders[o])
       THEN LET r == cancel_order(o)
            IN /\ orders' = [orders EXCEPT ![o] = r.order]
               /\ stock' = r.ledger.stock
               /\ pstatus' = r.ledger.status
               /\ lastOp' = OpBy("cancel", TRUE, o, a)
       ELSE /\ UNCHANGED <<orders, stock, pstatus>>
            /\ lastOp' = OpBy("cancel", FALSE, o, a)
    /\ UNCHANGED <<price, items, history, payments, now, pending, prepaid, categories, applied, logs>>

\* POST /orders/{id}/cancel/ : OrderViewSet.cancel, by any caller
Cancel(o) == \E a \in Actors : CancelAs(a, o)

\* ------------------------------------------------------------- payments

HasPayment(o) == o \in DOMAIN payments

\* POST /payments/ : PaymentCreateSerializer, one payment per order
CreatePayment(o) ==
    /\ o \in DOMAIN orders
    /\ ~HasPayment(o)
    /\ payments' = (o :> [status |-> "pending", completed_at |-> Unset]) @@ payments
    /\ lastOp' = Op("create_payment", TRUE, o, "none", 0)
    /\ UNCHANGED <<stock, pstatus, price, orders, items, history, now, pending, prepaid,
                 categories, applied, logs>>

\* a variant of the guard of Payment.mark_as_success that never skips
success_never_noop(st) == FALSE

\* is Payment.mark_as_success a no-op for a payment in status st
success_is_noop(st) == st = "success"

\* Payment.mark_as_success
mark_as_success(o) ==
    IF success_is_noop(payments[o].status)
    THEN UNCHANGED <<payments, orders, stock, pstatus, prepaid>>
    ELSE LET r == mark_as_paid(o)
         IN /\ payments' = [payments EXCEPT ![o] = [status |-> "success", completed_at |-> now]]
            /\ orders' = [orders EXCEPT ![o] = r.order]
            /\ stock' = r.ledger.stock
            /\ pstatus' = r.ledger.status
            /\ prepaid' = IF r.paid THEN [prepaid EXCEPT ![o] = stock] ELSE prepaid

\* Payment.mark_as_failed
mark_as_failed(o) ==
    /\ payments' = [payments EXCEPT ![o].status = "failed"]
    /\ UNCHANGED <<orders, stock, pstatus, prepaid>>

\* Payment.refund
refund(o) ==
    IF payments[o].status = "success"
    THEN LET r == cancel_order(o)
         IN /\ payments' = [payments EXCEPT ![o].status = "refunded"]
            /\ orders' = [orders EXCEPT ![o] = r.order]
            /\ stock' = r.ledger.stock
            /\ pstatus' = r.ledger.status
            /\ UNCHANGED prepaid
    ELSE UNCHANGED <<payments, orders, stock, pstatus, prepaid>>

NoPaymentEffect == UNCHANGED <<payments, orders, stock, pstatus, prepaid>>

\* POST /payments/{id}/initiate/ : create_payment_intent; the provider answers ok or not
CreatePaymentIntent(o, ok) ==
    /\ HasPayment(o)
    /\ IF ok THEN NoPaymentEffect /\ lastOp' = OpCall("create_payment_intent", o, "none")
       ELSE mark_as_failed(o) /\ lastOp' = OpCall("create_payment_intent", o, "mark_as_failed")
    /\ UNCHANGED <<price, items, history, now, pending, categories, applied, logs>>

\* POST /payments/{id}/execute/ : execute_payment; the provider reports success or not
ExecutePayment(o, ok) ==
    /\ HasPayment(o)
    /\ IF ok THEN mark_as_success(o) /\ lastOp' = OpCall("execute_payment", o, "mark_as_success")
       ELSE mark_as_failed(o) /\ lastOp' = OpCall("execute_payment", o, "mark_as_failed")
    /\ UNCHANGED <<price, items, history, now, pending, categories, applied, logs>>

\* verify_payment; the provider reports the payment completed or not
VerifyPayment(o, ok) ==
    /\ HasPayment(o)
    /\ IF ok /\ payments[o].status # "success"
       THEN mark_as_success(o) /\ lastOp' = OpCall("verify_payment", o, "mark_as_success")
       ELSE NoPaymentEffect /\ lastOp' = OpCall("verify_payment", o, "none")
    /\ UNCHANGED <<price, items, history, now, pending, categories, applied, logs>>

WebhookEvents == {"payment_intent.succeeded", "payment_intent.payment_failed", "other"}

\* POST /payments/webhook/stripe/ : StripePaymentStrategy.process_webhook for
\* an event that names this payment's transaction
ProcessWebhook(o, ev) ==
    /\ HasPayment(o)
    /\ CASE ev = "payment_intent.succeeded" ->
              mark_as_success(o) /\ lastOp' = OpCall("process_webhook", o, "mark_as_success")
         [] ev = "payment_intent.payment_failed" ->
              mark_as_failed(o) /\ lastOp' = OpCall("process_webhook", o, "mark_as_failed")
         [] OTHER ->
              NoPaymentEffect /\ lastOp' = OpCall("process_webhook", o, "none")
    /\ UNCHANGED <<price, items, history, now, pending, categories, applied, logs>>

\* refund_payment; the provider accepts the refund or not
RefundPayment(o, ok) ==
    /\ HasPayment(o)
    /\ IF ok THEN refund(o) /\ lastOp' = OpCall("refund_payment", o, "refund")
       ELSE NoPaymentEffect /\ lastOp' = OpCall("refund_payment", o, "none")
    /\ UNCHANGED <<price, items, history, now, pending, categories, applied, logs>>

\* ------------------------------------------ payment intents by provider

Providers == {"stripe", "bkash"}

\* what the provider does with the request for a checkout handle:
\* created: the handle is returned; provider_error: the call raises
\* (StripeError, RequestException); rejected: bKash answers with a statusCode
\* other than 0000; no_token: bKash grants no auth token
IntentOutcomes == {"created", "provider_error", "rejected", "no_token"}

\* POST /payments/ with a provider
CreatePaymentWith(o, pr) ==
    /\ o \in DOMAIN orders
    /\ ~HasPayment(o)
    /\ payments' = (o :> [status |-> "pending", completed_at |-> Unset,
                          provider |-> pr, error_message |-> ""]) @@ payments
    /\ lastOp' = Op("create_payment", TRUE, o, "none", 0)
    /\ UNCHANGED <<stock, pstatus, price, orders, items, history, now, pending, prepaid,
                   categories, applied, logs>>

LogRow(o, ev) == [payment |-> o, event_type |-> ev]

\* POST /payments/{id}/initiate/ : create_payment_intent of the strategy of the
\* payment's provider; lastOp.ok is the 'success' of the result returned
InitiatePayment(o, out) ==
    /\ HasPayment(o)
    /\ Len(logs) < MaxLogs
    /\ payments[o].provider = "stripe" => out \in {"created", "provider_error"}
    /\ CASE out = "created" ->
              /\ logs' = Append(logs, LogRow(o, "initiated"))
              /\ UNCHANGED payments
              /\ lastOp' = OpCall("initiate_payment", o, "none")
         [] out = "no_token" ->
              /\ UNCHANGED <<payments, logs>>
              /\ lastOp' = [OpCall("initiate_payment", o, "none") EXCEPT !.ok = FALSE]
         [] OTHER ->
              /\ payments' = [payments EXCEPT ![o].status = "failed",
                                              ![o].error_message = out]
              /\ logs' = Append(logs, LogRow(o, "error"))
              /\ lastOp' = [OpCall("initiate_payment", o, "mark_as_failed")
                               EXCEPT !.ok = FALSE]
    /\ UNCHANGED <<stock, pstatus, price, orders, items, history, now, pending, prepaid,
                   categories, applied>>

\* ------------------------------- concurrent deliveries of a success event

\* a request that will call Payment.mark_as_success: the view loads the payment
\* and the strategy's __init__ loads its order; both stay in the request's memory
BeginSuccess(r, o) ==
    /\ ~InFlight(r)
    /\ HasPayment(o)
    /\ pending' = [pending EXCEPT ![r] =
                     [kind |-> "success", o |-> o, pc |-> "payment",
                      payment |-> payments[o], order |-> orders[o]]]
    /\ lastOp' = Op("begin_success", TRUE, o, "none", 0)
    /\ UNCHANGED <<stock, pstatus, price, orders, items, history, payments, now, prepaid,
                 categories, applied, logs>>

\* the request is at step pc of Payment.mark_as_success
AtSuccessStep(r, pc) == InFlight(r) /\ pending[r].kind = "success" /\ pending[r].pc = pc

\* Payment.mark_as_success up to self.save(), on the payment the request holds
SuccessSavePayment(r) ==
    /\ AtSuccessStep(r, "payment")
    /\ LET o == pending[r].o IN
       IF success_is_noop(pending[r].payment.status)
       THEN /\ pending' = [pending EXCEPT ![r] = NoRequest]
            /\ UNCHANGED payments
       ELSE /\ payments' = [payments EXCEPT ![o] = [status |-> "success", completed_at |-> now]]
            /\ pending' = [pending EXCEPT ![r].pc = "order"]
    /\ lastOp' = Op("success_save_payment", TRUE, pending[r].o, "none", 0)
    /\ UNCHANGED <<stock, pstatus, price, orders, items, history, now, prepaid, categories,
                 applied, logs>>

\* Order.mark_as_paid up to self.save(), on the order the request holds
SuccessSaveOrder(r) ==
    /\ AtSuccessStep(r, "order")
    /\ LET o == pending[r].o IN
       IF pending[r].order.status = "pending"
       THEN /\ orders' = [orders EXCEPT ![o] =
                            OrderSave([pending[r].order EXCEPT !.status = "paid", !.paid_at = now],
                                      o, items)]
            /\ prepaid' = IF orders[o].status = "pending" THEN [prepaid EXCEPT ![o] = stock]
                          ELSE prepaid
            /\ pending' = [pending EXCEPT ![r].pc = "stock"]
       ELSE /\ pending' = [pending EXCEPT ![r] = NoRequest]
            /\ UNCHANGED <<orders, prepaid>>
    /\ lastOp' = Op("success_save_order", TRUE, pending[r].o, "none", 0)
    /\ UNCHANGED <<stock, pstatus, price, items, history, payments, now, categories, applied, logs>>

\* Order._reduce_stock at the end of Order.mark_as_paid
SuccessReduceStock(r) ==
    /\ AtSuccessStep(r, "stock")
    /\ LET led == reduce_stock_all(ItemsOf(items, pending[r].o), Ledger) IN
       /\ stock' = led.stock
       /\ pstatus' = led.status
    /\ pending' = [pending EXCEPT ![r] = NoRequest]
    /\ lastOp' = Op("success_reduce_stock", TRUE, pending[r].o, "none", 0)
    /\ UNCHANGED <<price, orders, items, history, payments, now, prepaid, categories, applied, logs>>

\* ----------------------------------------- concurrent stock updates

StockActions == {"increase", "decrease"}

\* POST /products/{slug}/update_stock/ : the view loads the product and
\* StockUpdateSerializer.validate checks a decrease against the loaded stock
BeginUpdateStock(r, p, act, q) ==
    /\ ~InFlight(r)
    /\ applied[p] \in -MaxApplied..MaxApplied
    /\ act = "decrease" => q <= stock[p]
    /\ act = "increase" => stock[p] + q <= MaxStock
    /\ pending' = [pending EXCEPT ![r] =
                     [kind |-> "stock", p |-> p, action |-> act, q |-> q,
                      stock |-> stock[p], status |-> pstatus[p]]]
    /\ lastOp' = Op("begin_update_stock", TRUE, 0, p, q)
    /\ UNCHANGED <<stock, pstatus, price, orders, items, history, payments, now, prepaid,
                   categories, applied, logs>>

\* StockUpdateSerializer.save: increase_stock or reduce_stock on the product
\* the request loaded, and the write of its row
FinishUpdateStock(r) ==
    /\ InFlight(r)
    /\ pending[r].kind = "stock"
    /\ LET m == pending[r]
           res == IF m.action = "increase" THEN increase_stock(m.stock, m.status, m.q)
                  ELSE reduce_stock(m.stock, m.status, m.q)
           delta == IF ~res.ok THEN 0 ELSE IF m.action = "increase" THEN m.q ELSE -m.q
       IN /\ stock' = [stock EXCEPT ![m.p] = res.stock]
          /\ pstatus' = [pstatus EXCEPT ![m.p] = res.status]
          /\ applied' = [applied EXCEPT ![m.p] = @ + delta]
          /\ lastOp' = Op("finish_update_stock", res.ok, 0, m.p, m.q)
    /\ pending' = [pending EXCEPT ![r] = NoRequest]
    /\ UNCHANGED <<price, orders, items, history, payments, now, prepaid, categories, logs>>

\* ------------------------------------------- concurrent item updates

\* PATCH /orders/{id}/items/{item_id}/ up to serializer.is_valid: the view
\* loads the order and the item, OrderItemUpdateSerializer.validate checks the
\* quantity against the product's stock
BeginUpdateItem(r, o, p, q) ==
    /\ ~InFlight(r)
    /\ orders[o].status = "pending"
    /\ HasItem(items, o, p)
    /\ ~(q > 0 /\ q > stock[p])
    /\ pending' = [pending EXCEPT ![r] =
                     [kind |-> "item", o |-> o, p |-> p, q |-> q, pc |-> "item",
                      item |-> items[ItemIndex(items, o, p)], order |-> orders[o],
                      saves |-> 0]]
    /\ lastOp' = Op("begin_update_item", TRUE, o, p, q)
    /\ UNCHANGED <<stock, pstatus, price, orders, items, history, payments, now, prepaid,
                   categories, applied, logs>>

\* the request is at step pc of OrderItemUpdateSerializer.save
AtItemStep(r, pc) == InFlight(r) /\ pending[r].kind = "item" /\ pending[r].pc = pc

\* the item row is deleted (quantity 0) or written with the new quantity (an
\* UPDATE by pk, an INSERT when the row is gone), and the item's order is
\* loaded; Order.save follows twice after a delete and once after a write
UpdateItemWriteRow(r) ==
    /\ AtItemStep(r, "item")
    /\ LET m == pending[r]
           row == ItemRow(m.o, m.p, m.q, m.item.price)
       IN /\ items' = IF m.q = 0
                      THEN SelectSeq(items, LAMBDA x : ~(x.order = m.o /\ x.product = m.p))
                      ELSE IF HasItem(items, m.o, m.p)
                           THEN [items EXCEPT ![ItemIndex(items, m.o, m.p)] = row]
                           ELSE Append(items, row)
          /\ pending' = [pending EXCEPT ![r] =
                           [m EXCEPT !.pc = "totals", !.order = orders[m.o],
                                     !.saves = IF m.q = 0 THEN 2 ELSE 1]]
          /\ lastOp' = Op("update_item_write_row", TRUE, m.o, m.p, m.q)
    /\ UNCHANGED <<stock, pstatus, price, orders, history, payments, now, prepaid,
                   categories, applied, logs>>

\* Order.save, first half: calculate_totals aggregates the item rows into the
\* order the request holds
UpdateItemTotals(r) ==
    /\ AtItemStep(r, "totals")
    /\ LET m == pending[r]
       IN /\ pending' = [pending EXCEPT ![r] =
                           [m EXCEPT !.pc = "save",
                                     !.order = calculate_totals(m.order, m.o, items)]]
          /\ lastOp' = Op("update_item_totals", TRUE, m.o, m.p, m.q)
    /\ UNCHANGED <<stock, pstatus, price, orders, items, history, payments, now, prepaid,
                   categories, applied, logs>>

\* Order.save, second half: the order the request holds is written
UpdateItemSaveOrder(r) ==
    /\ AtItemStep(r, "save")
    /\ LET m == pending[r]
       IN /\ orders' = [orders EXCEPT ![m.o] = StoreRow(m.order)]
          /\ pending' = [pending EXCEPT ![r] =
                           IF m.saves > 1
                           THEN [m EXCEPT !.pc = "totals", !.saves = @ - 1]
                           ELSE NoRequest]
          /\ lastOp' = Op("update_item_save_order", TRUE, m.o, m.p, m.q)
    /\ UNCHANGED <<stock, pstatus, price, items, history, payments, now, prepaid,
                   categories, applied, logs>>

\* ----------------------------------------------------------- categories

\* parent of a root category (NULL)
NoParent == 0

CategoryNames == 1..MaxCats

\* the active children of c in Meta.ordering, i.e. by name
ActiveChildren(tbl, c) ==
    LET byName == [n \in CategoryNames |->
                      IF \E i \in DOMAIN tbl : tbl[i].name = n
                      THEN CHOOSE i \in DOMAIN tbl : tbl[i].name = n
                      ELSE 0]
    IN SelectSeq(byName, LAMBDA i : i # 0 /\ tbl[i].parent = c /\ tbl[i].is_active)

\* Category.get_descendants_dfs: the inner dfs(category) and its loop over the
\* children; ok is FALSE when the recursion does not end (RecursionError), which
\* happens exactly when it goes deeper than there are categories
RECURSIVE dfs(_, _, _)
RECURSIVE dfs_children(_, _, _)
dfs(tbl, c, depth) ==
    IF depth > Len(tbl) THEN [ok |-> FALSE, list |-> <<>>]
    ELSE dfs_children(tbl, ActiveChildren(tbl, c), depth)

dfs_children(tbl, kids, depth) ==
    IF kids = <<>> THEN [ok |-> TRUE, list |-> <<>>]
    ELSE LET sub == dfs(tbl, Head(kids), depth + 1)
             rest == dfs_children(tbl, Tail(kids), depth)
         IN IF sub.ok /\ rest.ok
            THEN [ok |-> TRUE, list |-> <<Head(kids)>> \o sub.list \o rest.list]
            ELSE [ok |-> FALSE, list |-> <<>>]

get_descendants_dfs(tbl, c) == dfs(tbl, c, 0)

\* is x among the elements of the list
InList(list, x) == \E i \in DOMAIN list : list[i] = x

\* CategorySerializer.validate_parent for the instance c; "error" stands for
\* the request failing inside get_descendants_dfs
validate_parent(c, par) ==
    IF par = NoParent THEN "valid"
    ELSE IF par = c THEN "invalid"
    ELSE LET d == get_descendants_dfs(categories, c)
         IN IF ~d.ok THEN "error"
            ELSE IF InList(d.list, par) THEN "invalid"
            ELSE "valid"

\* the loop 'while parent: ...; parent = parent.parent' shared by get_full_path,
\* get_depth and get_ancestors: the categories visited from par upwards, nearest
\* first; ok is FALSE when the loop never ends (it is still running after it
\* has visited more categories than the table holds)
RECURSIVE walk_parents(_, _, _)
walk_parents(tbl, par, visited) ==
    IF par = NoParent THEN [ok |-> TRUE, list |-> <<>>]
    ELSE IF visited >= Len(tbl) THEN [ok |-> FALSE, list |-> <<>>]
    ELSE LET r == walk_parents(tbl, tbl[par].parent, visited + 1)
         IN [ok |-> r.ok, list |-> <<par>> \o r.list]

Reverse(s) == [i \in 1..Len(s) |-> s[Len(s) + 1 - i]]

\* Category.get_ancestors: from the root to the immediate parent
get_ancestors(tbl, c) ==
    LET r == walk_parents(tbl, tbl[c].parent, 0)
    IN [ok |-> r.ok, list |-> Reverse(r.list)]

\* Category.get_depth
get_depth(tbl, c) ==
    LET r == walk_parents(tbl, tbl[c].parent, 0)
    IN [ok |-> r.ok, depth |-> Len(r.list)]

\* Category.get_full_path: the names from the root down to the category
get_full_path(tbl, c) ==
    LET r == walk_parents(tbl, tbl[c].parent, 0)
    IN [ok |-> r.ok,
        path |-> [i \in 1..Len(r.list) |-> tbl[Reverse(r.list)[i]].name] \o <<tbl[c].name>>]

\* POST /categories/ : a new category, under an existing parent or none
CreateCategory(nm, par) ==
    /\ Len(categories) < MaxCats
    /\ \A i \in DOMAIN categories : categories[i].name # nm
    /\ par \in {NoParent} \cup DOMAIN categories
    /\ categories' = Append(categories, [name |-> nm, parent |-> par, is_active |-> TRUE])
    /\ lastOp' = Op("create_category", TRUE, Len(categories) + 1, "none", par)
    /\ UNCHANGED <<stock, pstatus, price, orders, items, history, payments, now, pending,
                 prepaid, applied, logs>>

\* PATCH /categories/{slug}/ with a parent: validate_parent, then save
SetCategoryParent(c, par) ==
    /\ c \in DOMAIN categories
    /\ par \in {NoParent} \cup DOMAIN categories
    /\ par # categories[c].parent
    /\ LET v == validate_parent(c, par) IN
       /\ categories' = IF v = "valid" THEN [categories EXCEPT ![c].parent = par]
                        ELSE categories
       /\ lastOp' = Op("set_category_parent", v = "valid", c, "none", par)
    /\ UNCHANGED <<stock, pstatus, price, orders, items, history, payments, now, pending,
                 prepaid, applied, logs>>

\* PATCH /categories/{slug}/ with is_active
SetCategoryActive(c, b) ==
    /\ c \in DOMAIN categories
    /\ b # categories[c].is_active
    /\ categories' = [categories EXCEPT ![c].is_active = b]
    /\ lastOp' = Op("set_category_active", TRUE, c, "none", 0)
    /\ UNCHANGED <<stock, pstatus, price, orders, items, history, payments, now, pending,
                 prepaid, applied, logs>>

\* ------------------------------------------------------- specification

Init ==
    /\ stock \in [Products -> {MaxStock}]
    /\ pstatus = [p \in Products |-> "active"]
    /\ price \in [Products -> {10 * Cent}]
    /\ orders = <<>>
    /\ items = <<>>
    /\ history = <<>>
    /\ payments = <<>>
    /\ now = 1
    /\ pending = [r \in Creators |-> NoRequest]
    /\ prepaid = <<>>
    /\ categories = <<>>
    /\ applied = [p \in Products |-> 0]
    /\ logs = <<>>
    /\ lastOp = Op("init", TRUE, 0, "none", 0)

\* the order lifecycle, the stock ledger and the payment state machine
Next ==
    \/ Tick
    \/ \E d \in LineSeqs : CreateOrder(d, 0, 0)
    \/ \E o \in DOMAIN orders, st \in OrderStatuses : UpdateStatus(o, st)
    \/ \E o \in DOMAIN orders : Cancel(o)
    \/ \E o \in DOMAIN orders : AdminMarkAsPaid(o)
    \/ \E o \in DOMAIN orders : CreatePayment(o)
    \/ \E o \in DOMAIN orders, ok \in BOOLEAN : CreatePaymentIntent(o, ok)
    \/ \E o \in DOMAIN orders, ok \in BOOLEAN : ExecutePayment(o, ok)
    \/ \E o \in DOMAIN orders, ok \in BOOLEAN : VerifyPayment(o, ok)
    \/ \E o \in DOMAIN orders, ev \in WebhookEvents : ProcessWebhook(o, ev)
    \/ \E o \in DOMAIN orders, ok \in BOOLEAN : RefundPayment(o, ok)

Spec == Init /\ [][Next]_vars

\* items and totals of orders: every operation that writes an order row or an item row
NextTotals ==
    \/ \E p \in Repriced, v \in Prices : SetPrice(p, v)
    \/ \E d \in LineSeqs, s \in ShippingCosts, c \in Discounts : CreateOrder(d, s, c)
    \/ \E o \in DOMAIN orders, p \in Products, q \in 1..MaxQty : AddItem(o, p, q)
    \/ \E o \in DOMAIN orders, p \in Products : RemoveItem(o, p)
    \/ \E o \in DOMAIN orders, p \in Products, q \in 0..MaxQty : UpdateItemQuantity(o, p, q)
    \/ \E o \in DOMAIN orders, p \in Products, q \in 0..MaxQty : UpdateItem(o, p, q)
    \/ \E o \in DOMAIN orders, s \in ShippingCosts, c \in Discounts : UpdateOrder(o, s, c)
    \/ \E o \in DOMAIN orders, st \in OrderStatuses : UpdateStatus(o, st)
    \/ \E o \in DOMAIN orders : Cancel(o)

SpecTotals == Init /\ [][NextTotals]_vars

\* the stock ledger alone
NextStock ==
    \/ \E p \in Products, q \in 1..MaxQty : ReduceStock(p, q)
    \/ \E p \in Products, q \in 1..MaxQty : IncreaseStock(p, q)
    \/ \E p \in Products, st \in ProductStatuses : SetProductStatus(p, st)
    \/ \E p \in Products, s \in 0..MaxStock : SetStock(p, s)

SpecStock == Init /\ [][NextStock]_vars

\* order creations that overlap
NextNum ==
    \/ Tick
    \/ \E r \in Creators, d \in LineSeqs : BeginCreate(r, d, 0, 0)
    \/ \E r \in Creators : CommitCreate(r)

SpecNum == Init /\ [][NextNum]_vars

\* the category tree
NextCat ==
    \/ \E nm \in CategoryNames, par \in 0..MaxCats : CreateCategory(nm, par)
    \/ \E c \in DOMAIN categories, par \in 0..MaxCats : SetCategoryParent(c, par)
    \/ \E c \in DOMAIN categories, b \in BOOLEAN : SetCategoryActive(c, b)

SpecCat == Init /\ [][NextCat]_vars

\* deliveries of a payment's success event that overlap
NextDup ==
    \/ \E d \in LineSeqs : CreateOrder(d, 0, 0)
    \/ \E o \in DOMAIN orders : CreatePayment(o)
    \/ \E r \in Creators, o \in DOMAIN orders : BeginSuccess(r, o)
    \/ \E r \in Creators : SuccessSavePayment(r)
    \/ \E r \in Creators : SuccessSaveOrder(r)
    \/ \E r \in Creators : SuccessReduceStock(r)

SpecDup == Init /\ [][NextDup]_vars

\* stock updates of a product that overlap
NextRace ==
    \/ \E r \in Creators, p \in Products, act \in StockActions, q \in 1..MaxQty :
          BeginUpdateStock(r, p, act, q)
    \/ \E r \in Creators : FinishUpdateStock(r)

SpecRace == Init /\ [][NextRace]_vars

\* item updates of an order that overlap
NextItems ==
    \/ \E d \in LineSeqs : CreateOrder(d, 0, 0)
    \/ \E r \in Creators, o \in DOMAIN orders, p \in Products, q \in 0..MaxQty :
          BeginUpdateItem(r, o, p, q)
    \/ \E r \in Creators : UpdateItemWriteRow(r)
    \/ \E r \in Creators : UpdateItemTotals(r)
    \/ \E r \in Creators : UpdateItemSaveOrder(r)

SpecItems == Init /\ [][NextItems]_vars

\* status transitions whose writes can fail
NextFault ==
    \/ Tick
    \/ \E d \in LineSeqs : CreateOrder(d, 0, 0)
    \/ \E o \in DOMAIN orders, st \in OrderStatuses : UpdateStatus(o, st)
    \/ \E o \in DOMAIN orders, st \in OrderStatuses, at \in FailurePoints :
          UpdateStatusFails(o, st, at)

SpecFault == Init /\ [][NextFault]_vars

\* orders paid after the stock of their products has gone down
NextPaid ==
    \/ \E d \in LineSeqs : CreateOrder(d, 0, 0)
    \/ \E p \in Products, q \in 1..MaxQty : ReduceStock(p, q)
    \/ \E o \in DOMAIN orders, st \in OrderStatuses : UpdateStatus(o, st)
    \/ \E o \in DOMAIN orders : AdminMarkAsPaid(o)
    \/ \E o \in DOMAIN orders : CreatePayment(o)
    \/ \E o \in DOMAIN orders, ok \in BOOLEAN : ExecutePayment(o, ok)

SpecPaid == Init /\ [][NextPaid]_vars

\* payments initiated with their provider
NextIntent ==
    \/ \E d \in LineSeqs : CreateOrder(d, 0, 0)
    \/ \E o \in DOMAIN orders, pr \in Providers : CreatePaymentWith(o, pr)
    \/ \E o \in DOMAIN orders, out \in IntentOutcomes : InitiatePayment(o, out)

SpecIntent == Init /\ [][NextIntent]_vars

\* the order lifecycle driven by update_status, payments and the admin actions
NextAdmin ==
    \/ Tick
    \/ \E d \in LineSeqs : CreateOrder(d, 0, 0)
    \/ \E o \in DOMAIN orders, st \in OrderStatuses : UpdateStatus(o, st)
    \/ \E o \in DOMAIN orders : AdminMarkAsPaid(o)
    \/ \E o \in DOMAIN orders : AdminMarkAsProcessing(o)
    \/ \E o \in DOMAIN orders : AdminMarkAsShipped(o)
    \/ \E o \in DOMAIN orders : AdminCancelOrders(o)
    \/ \E o \in DOMAIN orders : CreatePayment(o)
    \/ \E o \in DOMAIN orders, ok \in BOOLEAN : ExecutePayment(o, ok)

SpecAdmin == Init /\ [][NextAdmin]_vars

\* the stock ledger under orders that are paid, canceled and refunded while
\* success deliveries and stock updates overlap
NextLedger ==
    \/ \E p \in Restocked, q \in 1..MaxQty :
          CreateOrder(<<[product |-> p, quantity |-> q]>>, 0, 0)
    \/ \E o \in DOMAIN orders : CreatePayment(o)
    \/ \E r \in Creators, o \in DOMAIN orders : BeginSuccess(r, o)
    \/ \E r \in Creators : SuccessSavePayment(r)
    \/ \E r \in Creators : SuccessSaveOrder(r)
    \/ \E r \in Creators : SuccessReduceStock(r)
    \/ \E o \in DOMAIN orders : Cancel(o)
    \/ \E o \in DOMAIN orders, ok \in BOOLEAN : RefundPayment(o, ok)
    \/ \E r \in Creators, p \in Restocked, act \in StockActions, q \in 1..MaxQty :
          BeginUpdateStock(r, p, act, q)
    \/ \E r \in Creators : FinishUpdateStock(r)

SpecLedger == Init /\ [][NextLedger]_vars

\* item updates of an order while its status is changed by other requests
NextStale ==
    \/ \E l \in Lines : CreateOrder(<<l>>, 0, 0)
    \/ \E r \in Creators, o \in DOMAIN orders, p \in Products, q \in 0..MaxQty :
          BeginUpdateItem(r, o, p, q)
    \/ \E r \in Creators : UpdateItemWriteRow(r)
    \/ \E r \in Creators : UpdateItemTotals(r)
    \/ \E r \in Creators : UpdateItemSaveOrder(r)
    \/ \E o \in DOMAIN orders : CreatePayment(o)
    \/ \E o \in DOMAIN orders, ok \in BOOLEAN : ExecutePayment(o, ok)

SpecStale == Init /\ [][NextStale]_vars

\* ---------------------------------------------------------------- claims

\* C1: every stored order has total_amount = subtotal + tax + shipping_cost -
\* discount, the tax being 5% of the subtotal (at the 2 places the column keeps).
C1_TotalsEquation ==
    \A o \in DOMAIN orders :
        /\ orders[o].tax = Quantize2((orders[o].subtotal * 5) \div 100)
        /\ orders[o].total_amount =
              orders[o].subtotal + orders[o].tax + orders[o].shipping_cost - orders[o].discount

\* the edges the status graph of the claim allows
C2_Edges ==
    {<<"pending", "paid">>, <<"pending", "canceled">>,
     <<"paid", "processing">>, <<"paid", "canceled">>,
     <<"processing", "shipped">>, <<"processing", "canceled">>,
     <<"shipped", "delivered">>}

\* C2 as claimed: an order's status changes only along the edges of the graph
\* (so never shipped -> canceled, never out of delivered or canceled).
C2_OnlyGraphEdges ==
    [][\A o \in DOMAIN orders :
          orders'[o].status # orders[o].status
            => <<orders[o].status, orders'[o].status>> \in C2_Edges]_vars

\* C2 as amended: an order's status changes only along the edges of the graph
\* or from shipped to canceled, and then by a cancellation (cancel endpoint,
\* refund), never by update_status.
C2_GraphOrCancelShipped ==
    [][\A o \in DOMAIN orders :
          orders'[o].status # orders[o].status
            => \/ <<orders[o].status, orders'[o].status>> \in C2_Edges
               \/ /\ orders[o].status = "shipped"
                  /\ orders'[o].status = "canceled"
                  /\ lastOp'.op \in {"cancel", "refund_payment"}]_vars

\* C2 witness: a shipped order has been canceled by the cancel endpoint.
C2_ShippedCanceled ==
    \E o \in DOMAIN orders :
        /\ orders[o].status = "canceled"
        /\ orders[o].shipped_at # Unset
        /\ lastOp.op = "cancel"

\* C3: every change of an order's status appends exactly one history row, from
\* the previous status to the new one, and leaves the earlier rows as they were.
C3_HistoryOnEveryChange ==
    [][\A o \in DOMAIN orders :
          orders'[o].status # orders[o].status
            => history' = Append(history, [order |-> o,
                                           from_status |-> orders[o].status,
                                           to_status |-> orders'[o].status])]_vars

\* C4: Payment.mark_as_success called on a payment that is already success
\* changes nothing: the payment (status, completed_at), the order (status,
\* paid_at), the stock and status of every product and the history are as before.
C4_SecondSuccessNoop ==
    [][\A o \in DOMAIN orders :
          /\ HasPayment(o)
          /\ payments[o].status = "success"
          /\ lastOp'.calls = "mark_as_success"
          /\ lastOp'.o = o
          => /\ payments' = payments
             /\ orders' = orders
             /\ stock' = stock
             /\ pstatus' = pstatus
             /\ history' = history]_vars

\* C4 witness: mark_as_success has run on a payment that had completed at an
\* earlier time, and the order is paid with its stock reduced once.
C4_SecondCallDone ==
    \E o \in DOMAIN orders :
        /\ HasPayment(o)
        /\ payments[o].status = "success"
        /\ payments[o].completed_at # Unset
        /\ payments[o].completed_at < now
        /\ lastOp.calls = "mark_as_success"
        /\ lastOp.o = o
        /\ orders[o].status = "paid"
        /\ \E p \in Products : stock[p] < MaxStock

\* C5: a refunded payment stays refunded whatever is called on it
\* (mark_as_success, mark_as_failed, refund, also through execute_payment,
\* verify_payment and process_webhook), a payment becomes refunded only from
\* success, and a success payment never goes back to pending or processing.
C5_PaymentMachine ==
    [][\A o \in DOMAIN payments :
          /\ payments[o].status = "refunded" => payments'[o].status = "refunded"
          /\ payments[o].status = "success" => payments'[o].status \notin {"pending", "processing"}
          /\ payments'[o].status = "refunded" /\ payments[o].status # "refunded"
                => payments[o].status = "success"]_vars

\* the products of the items of order o
C6_ProductsOf(o) == {items[i].product : i \in {j \in DOMAIN items : items[j].order = o}}

\* C6: when a paid order becomes canceled, the stock of each of its products is
\* again what it was just before the order was paid.
C6_CancelRestoresStock ==
    [][\A o \in DOMAIN orders :
          orders[o].status = "paid" /\ orders'[o].status = "canceled"
            => \A p \in C6_ProductsOf(o) : stock'[p] = prepaid[o][p]]_vars

\* C7: two order creations in flight never hold the same order_number, and no
\* creation fails at its commit.
C7_DistinctNumbers ==
    /\ \A r1, r2 \in Creators :
          r1 # r2 /\ InFlight(r1) /\ InFlight(r2)
            => pending[r1].order_number # pending[r2].order_number
    /\ ~(lastOp.op = "commit_create" /\ ~lastOp.ok)

\* the sum of quantity x price over the item rows with the given indices
RECURSIVE C8_SumOver(_)
C8_SumOver(S) ==
    IF S = {} THEN 0
    ELSE LET i == CHOOSE j \in S : TRUE
         IN items[i].quantity * items[i].price + C8_SumOver(S \ {i})

\* C8: every stored order's subtotal is the sum over its current items of
\* quantity x captured unit price (0 when it has none).
C8_SubtotalIsItemSum ==
    \A o \in DOMAIN orders :
        orders[o].subtotal = C8_SumOver({i \in DOMAIN items : items[i].order = o})

\* C8 witness: an order holds two items, one of them at a price the product no
\* longer has, after an item operation.
C8_TwoItemsOldPrice ==
    \E o \in DOMAIN orders :
        /\ Cardinality({i \in DOMAIN items : items[i].order = o}) = 2
        /\ \E i \in DOMAIN items : items[i].order = o /\ items[i].price # price[items[i].product]
        /\ lastOp.op \in {"add_item", "update_item", "update_item_quantity"}
        /\ lastOp.ok

\* the item rows of the pair (o, p) in an items table
C9_RowsOf(tbl, o, p) == {i \in DOMAIN tbl : tbl[i].order = o /\ tbl[i].product = p}

\* C9: add_item of a product the order already holds leaves one item for the
\* pair, its quantity the old quantity plus the added one and its unit price the
\* one captured first; and no (order, product) pair ever has two items.
C9_AddMerges ==
    [][/\ lastOp'.op = "add_item" /\ lastOp'.ok /\ HasItem(items, lastOp'.o, lastOp'.p)
          => LET o == lastOp'.o
                 p == lastOp'.p
                 old == items[ItemIndex(items, o, p)]
             IN /\ Cardinality(C9_RowsOf(items', o, p)) = 1
                /\ \A i \in C9_RowsOf(items', o, p) :
                      /\ items'[i].quantity = old.quantity + lastOp'.q
                      /\ items'[i].price = old.price
       /\ \A o \in DOMAIN orders', p \in Products : Cardinality(C9_RowsOf(items', o, p)) <= 1]_vars

\* C9 witness: a product was added again after its price had changed, and the
\* merged item still carries the first price.
C9_MergedAfterReprice ==
    /\ lastOp.op = "add_item"
    /\ lastOp.ok
    /\ \E i \in DOMAIN items :
          /\ items[i].order = lastOp.o
          /\ items[i].product = lastOp.p
          /\ items[i].quantity > lastOp.q
          /\ items[i].price # price[lastOp.p]

\* C10: reduce_stock with a quantity above the product's stock fails and leaves
\* the product's stock and status as they were.
C10_ReduceFailsUnchanged ==
    [][lastOp'.op = "reduce_stock" /\ lastOp'.q > stock[lastOp'.p]
          => /\ ~lastOp'.ok
             /\ stock' = stock
             /\ pstatus' = pstatus]_vars

\* C10 witness: a reduce_stock asking for more than the (positive) stock failed.
C10_ReduceFailed ==
    /\ lastOp.op = "reduce_stock"
    /\ ~lastOp.ok
    /\ lastOp.q > stock[lastOp.p]
    /\ stock[lastOp.p] > 0

RECURSIVE C12_Ancestors(_, _)
C12_Ancestors(c, n) ==
    IF n = 0 \/ categories[c].parent = NoParent THEN {}
    ELSE {categories[c].parent} \cup C12_Ancestors(categories[c].parent, n - 1)

\* C12: the parent relation has no cycle: no category is its own ancestor.
C12_NoCycle ==
    \A c \in DOMAIN categories : c \notin C12_Ancestors(c, Len(categories))

\* the categories reached from c through a chain of active children, by n
\* rounds of adding the active children of what has been reached
RECURSIVE C13_Reach(_, _)
C13_Reach(c, n) ==
    IF n = 0 THEN {}
    ELSE LET prev == C13_Reach(c, n - 1)
         IN {x \in DOMAIN categories :
                /\ categories[x].is_active
                /\ categories[x].parent = c \/ categories[x].parent \in prev}

C13_ActiveDescendants(c) == C13_Reach(c, Len(categories))

\* C13: get_descendants_dfs(c) returns a list, without repetition and without c,
\* of exactly the categories reached from c through active children, in
\* pre-order: the descendants of every listed category follow it as one block.
C13_DfsPreOrder ==
    \A c \in DOMAIN categories :
        LET r == get_descendants_dfs(categories, c)
            n == Len(r.list)
        IN /\ r.ok
           /\ {r.list[i] : i \in 1..n} = C13_ActiveDescendants(c)
           /\ n = Cardinality(C13_ActiveDescendants(c))
           /\ \A i \in 1..n : r.list[i] # c
           /\ \A i \in 1..n :
                 LET k == Cardinality(C13_ActiveDescendants(r.list[i]))
                 IN /\ i + k <= n
                    /\ {r.list[j] : j \in (i + 1)..(i + k)} = C13_ActiveDescendants(r.list[i])

\* C14: a cancel request by a customer is rejected, leaving the order and all
\* stock unchanged, when the order is not the customer's own or is in status
\* paid, processing or shipped.
C14_CustomerCancelsPendingOnly ==
    [][lastOp'.op = "cancel" /\ lastOp'.by \in {"owner", "other"}
         /\ (lastOp'.by = "other"
               \/ orders[lastOp'.o].status \in {"paid", "processing", "shipped"})
          => /\ ~lastOp'.ok
             /\ orders' = orders
             /\ stock' = stock
             /\ pstatus' = pstatus]_vars

\* C15 as claimed: the stock of a product goes down only in a step that calls
\* Payment.mark_as_success.
C15_ReducedOnlyBySuccess ==
    [][(\E p \in Products : stock'[p] < stock[p]) => lastOp'.calls = "mark_as_success"]_vars

\* C15 as amended: the stock of a product goes down only in a step that takes
\* an order from pending to paid, be it through Payment.mark_as_success, the
\* update_status transition to paid or the admin action.
C15_ReducedOnlyOnPaid ==
    [][(\E p \in Products : stock'[p] < stock[p])
          => /\ lastOp'.o \in DOMAIN orders
             /\ orders[lastOp'.o].status = "pending"
             /\ orders'[lastOp'.o].status = "paid"
             /\ \/ lastOp'.calls = "mark_as_success"
                \/ lastOp'.op \in {"update_status", "admin_mark_as_paid"}]_vars

\* C15 witness: update_status has taken an order without a payment to paid and
\* the stock has been reduced.
C15_PaidWithoutPayment ==
    /\ lastOp.op = "update_status"
    /\ lastOp.ok
    /\ orders[lastOp.o].status = "paid"
    /\ ~HasPayment(lastOp.o)
    /\ \E p \in Products : stock[p] < MaxStock

\* the quantity order o holds of product p
C16_QuantityOf(o, p) ==
    IF HasItem(items, o, p) THEN items[ItemIndex(items, o, p)].quantity ELSE 0

\* C16: a refund on a success payment leaves the payment refunded, the order
\* canceled and the stock of every product raised by the quantity the order
\* holds of it, when the order was paid, processing, shipped or delivered; a
\* refund on a payment in any other status changes nothing.
C16_RefundEffect ==
    [][\A o \in DOMAIN payments :
          lastOp'.calls = "refund" /\ lastOp'.o = o
            => IF payments[o].status = "success"
               THEN /\ payments'[o].status = "refunded"
                    /\ orders[o].status \in {"paid", "processing", "shipped", "delivered"}
                         => /\ orders'[o].status = "canceled"
                            /\ \A p \in Products :
                                  stock'[p] = stock[p] + C16_QuantityOf(o, p)
               ELSE /\ payments' = payments
                    /\ orders' = orders
                    /\ stock' = stock]_vars

\* C17: once the deliveries of a payment's success event have all finished, the
\* payment is success, the order is paid and the stock of every product is
\* down by the quantity the order holds of it, once.
C17_ReducedOnce ==
    \A o \in DOMAIN payments :
        /\ \A r \in Creators : ~InFlight(r)
        /\ payments[o].status = "success"
        => /\ orders[o].status = "paid"
           /\ \A p \in Products : stock[p] = MaxStock - C16_QuantityOf(o, p)

\* C18: once every stock call has finished, the stock of each product is its
\* initial stock minus the quantities of the reductions that succeeded plus the
\* quantities of the increases.
C18_NoLostUpdate ==
    (\A r \in Creators : ~InFlight(r))
        => \A p \in Products : stock[p] = MaxStock + applied[p]

\* C19: once every request that updates an item of an order has finished, the
\* order's stored subtotal and total_amount are the ones computed from the item
\* rows it has then.
C19_TotalsOfFinalItems ==
    (\A r \in Creators : ~InFlight(r))
        => \A o \in DOMAIN orders :
              /\ orders[o].subtotal = OrderSave(orders[o], o, items).subtotal
              /\ orders[o].total_amount = OrderSave(orders[o], o, items).total_amount

\* C20: a call of Payment.mark_as_success that makes a payment success leaves
\* its order paid: when the call has completed the payment is not success with
\* an order that is pending, canceled or anything else than paid.
C20_SuccessMeansPaid ==
    [][\A o \in DOMAIN payments :
          /\ lastOp'.calls = "mark_as_success"
          /\ lastOp'.o = o
          /\ payments[o].status # "success"
          /\ payments'[o].status = "success"
          => orders'[o].status = "paid"]_vars

\* the quantity of product p in the items of order o
C21_QuantityOf(o, p) ==
    LET rows == SelectSeq(items, LAMBDA x : x.order = o /\ x.product = p)
    IN IF rows = <<>> THEN 0 ELSE rows[1].quantity

\* C21: when cancel_order (through the cancel endpoint or a refund) cancels an
\* order that was paid, processing or shipped, the stock of every product goes
\* up by the quantity of its item in the order; when it cancels a pending
\* order, no stock changes.
C21_CancelRestores ==
    [][\A o \in DOMAIN orders :
          /\ lastOp'.op = "cancel" \/ lastOp'.calls = "refund"
          /\ lastOp'.o = o
          /\ orders[o].status # "canceled"
          /\ orders'[o].status = "canceled"
          => IF orders[o].status = "pending"
             THEN stock' = stock
             ELSE \A p \in Products : stock'[p] = stock[p] + C21_QuantityOf(o, p)]_vars

\* C22: an update_status request in which the write of the history row or the
\* write of the order fails retains nothing: the history and the order rows are
\* as they were before the request.
C22_FailedTransitionLeavesNothing ==
    [][lastOp'.op \in {"update_status_history_fails", "update_status_save_fails"}
          => /\ history' = history
             /\ orders' = orders]_vars

\* C23: a step that takes an order from pending to paid sets paid_at to the
\* current time and reduces the stock of every item's product by the item's
\* quantity, except for the products whose stock is below the quantity: their
\* stock stays, the order is paid all the same and the other items are reduced.
C23_PaidDespiteShortage ==
    [][\A o \in DOMAIN orders :
          orders[o].status = "pending" /\ orders'[o].status = "paid"
          => /\ orders'[o].paid_at = now
             /\ orders'[o].paid_at # Unset
             /\ \A p \in Products :
                   stock'[p] = IF C21_QuantityOf(o, p) > stock[p] THEN stock[p]
                               ELSE stock[p] - C21_QuantityOf(o, p)]_vars

\* C23 witness: an order has just become paid, the reduction of one of its
\* items failed and left that stock alone, and another of its items was reduced.
C23_PaidWithShortage ==
    \E o \in DOMAIN orders :
        /\ orders[o].status = "paid"
        /\ orders[o].paid_at # Unset
        /\ lastOp.o = o
        /\ lastOp.op \in {"update_status", "admin_mark_as_paid", "execute_payment"}
        /\ \E p, p2 \in Products :
              /\ C21_QuantityOf(o, p) > prepaid[o][p]
              /\ stock[p] = prepaid[o][p]
              /\ C21_QuantityOf(o, p2) > 0
              /\ stock[p2] = prepaid[o][p2] - C21_QuantityOf(o, p2)

\* C24: reduce_stock and increase_stock leave the status of an inactive
\* product inactive, whatever its stock becomes.
C24_InactiveStaysInactive ==
    [][\A p \in Products :
          /\ lastOp'.op \in {"reduce_stock", "increase_stock"}
          /\ pstatus[p] = "inactive"
          => pstatus'[p] = "inactive"]_vars

\* C25: whenever create_payment_intent returns a failure result, the payment
\* is failed with an error message and one error event has been added to the
\* payment's log.
C25_IntentFailureRecorded ==
    [][\A o \in DOMAIN payments :
          lastOp'.op = "initiate_payment" /\ lastOp'.o = o /\ ~lastOp'.ok
          => /\ payments'[o].status = "failed"
             /\ payments'[o].error_message # ""
             /\ logs' = Append(logs, [payment |-> o, event_type |-> "error"])]_vars

\* C26: every stored order has subtotal, tax, shipping_cost, discount and
\* total_amount at or above zero.
C26_MoneyNonNegative ==
    \A o \in DOMAIN orders :
        /\ orders[o].subtotal >= 0
        /\ orders[o].tax >= 0
        /\ orders[o].shipping_cost >= 0
        /\ orders[o].discount >= 0
        /\ orders[o].total_amount >= 0

\* C27: after every step of update_status, a payment's success or an admin
\* bulk action, an order that is paid, processing, shipped or delivered has
\* paid_at set, one that is shipped or delivered has shipped_at set, one that is
\* delivered has delivered_at set, a pending order has paid_at unset, and
\* paid_at changes only in the step that takes the order from pending to paid.
C27_TimestampsFollowStatus ==
    [][\A o \in DOMAIN orders :
          /\ orders'[o].status \in {"paid", "processing", "shipped", "delivered"}
                => orders'[o].paid_at # Unset
          /\ orders'[o].status \in {"shipped", "delivered"} => orders'[o].shipped_at # Unset
          /\ orders'[o].status = "delivered" => orders'[o].delivered_at # Unset
          /\ orders'[o].status = "pending" => orders'[o].paid_at = Unset
          /\ orders'[o].paid_at # orders[o].paid_at
                => orders[o].status = "pending" /\ orders'[o].status = "paid"]_vars

\* C27 witness: the admin action has shipped an order that was paid earlier,
\* and the order carries both timestamps.
C27_ShippedByAdmin ==
    \E o \in DOMAIN orders :
        /\ lastOp.op = "admin_mark_as_shipped"
        /\ lastOp.ok
        /\ lastOp.o = o
        /\ orders[o].status = "shipped"
        /\ orders[o].paid_at # Unset
        /\ orders[o].shipped_at = now
        /\ orders[o].paid_at < orders[o].shipped_at

\* C28: the stock of every product is at or above zero in every reachable
\* state, also when payments, cancellations, refunds and stock updates overlap.
C28_StockNonNegative == \A p \in Products : stock[p] >= 0

\* C28 witness: overlapping reductions that together asked for more than the
\* product ever had have all succeeded, and the product's stock is 0.
C28_OverdrawnAtZero ==
    \E p \in Products :
        /\ stock[p] = 0
        /\ applied[p] < -MaxStock
        /\ \A r \in Creators : ~InFlight(r)

\* C29: a step of an item operation on an order leaves the stored status,
\* paid_at, shipped_at and delivered_at of every order as they were, also when
\* the order was paid by another request after the item request had loaded it.
C29_ItemStepKeepsStatus ==
    [][lastOp'.op \in {"begin_update_item", "update_item_write_row",
                       "update_item_totals", "update_item_save_order"}
          => \A o \in DOMAIN orders :
                /\ orders'[o].status = orders[o].status
                /\ orders'[o].paid_at = orders[o].paid_at
                /\ orders'[o].shipped_at = orders[o].shipped_at
                /\ orders'[o].delivered_at = orders[o].delivered_at]_vars

\* C30: in every category table reached through create and update requests
\* that passed validation, get_full_path, get_depth and get_ancestors end for
\* every category, and get_depth is the number of the category's ancestors.
C30_WalksTerminate ==
    \A c \in DOMAIN categories :
        /\ get_full_path(categories, c).ok
        /\ get_ancestors(categories, c).ok
        /\ get_depth(categories, c).ok
        /\ get_depth(categories, c).depth = Cardinality(C12_Ancestors(c, Len(categories)))
        /\ Len(get_ancestors(categories, c).list) = get_depth(categories, c).depth
        /\ Len(get_full_path(categories, c).path) = get_depth(categories, c).depth + 1

====
